---- MODULE Spec2Model ----
(***************************************************************************)
(* Verification model of handy-ml, scripts/optimize_satisfy_early_stopping, *)
(* scripts/prediction_confidence and scripts/ordinal_regression.            *)
(* The class OptimizeSatisfyEarlyStopping (the "Monitor") keeps the last    *)
(* retained score dictionary in best_dict and decides, per call of          *)
(* evaluate_criteria, whether training must stop.                           *)
(*                                                                          *)
(* Scores are floats in the program; they are modelled as integers, which   *)
(* keep the only operations the class applies to them (< and >=).           *)
(***************************************************************************)
EXTENDS Integers, Sequences, FiniteSets, TLC

\* ---------------------------------------------------------------- bounds
MaxVal == 2        \* scores of the library runs range over 0..MaxVal
MaxSat == 2        \* at most MaxSat entries in satisfy_metrics
MaxCalls == 3      \* evaluate_criteria calls per library run
DemoMaxIter == 4   \* iterations of the __main__ loop that are explored
Tenths == 10       \* the __main__ scores are k/10 for k in 0..Tenths
ProbScale == 10    \* probabilities are k/ProbScale for k in 0..ProbScale
MaxLen == 3        \* length of the list of probabilities
MaxNumLabels == 3  \* num_labels of the ordinal encoding
MaxRows == 3       \* number of labels encoded, of rows of logits decoded

\* ------------------------------------------------------------- constants
MAX_ITER == 9999   \* __main__: max iterations in the simulation
Threshold == 1     \* threshold used by the library runs
DemoThreshold == 5 \* __main__: {lambda x: x["precision"]: 0.5}, in tenths
DefaultScore == 1  \* value a defaulting metric returns for a missing key

\* ------------------------------------------------------------ data model
Keys == {"recall", "precision"}
Values == 0..MaxVal

\* score_dict: Dict[str, Any]; the empty dictionary is {}.
EmptyDict == [k \in {} |-> 0]
Snapshots == UNION {[D -> Values] : D \in SUBSET Keys}

\* Results of one evaluate_criteria call: True, False, or an exception
\* propagated from a metric function.  NoCall: nothing was called yet.
Stop == "stop"
DoNotStop == "do not stop"
Raised == "raised"
NoCall == "no call"

\* Metric callables.  strict: lambda x: x[key], which raises KeyError on a
\* dictionary without the key; otherwise lambda x: x.get(key, DefaultScore).
ScoreFns == [key : Keys, strict : BOOLEAN]
RecallFn == [key |-> "recall", strict |-> TRUE]
PrecisionFn == [key |-> "precision", strict |-> TRUE]

ApplyMetric(f, d) ==
  IF f.key \in DOMAIN d THEN [ok |-> TRUE, v |-> d[f.key]]
  ELSE IF f.strict THEN [ok |-> FALSE, v |-> 0]
  ELSE [ok |-> TRUE, v |-> DefaultScore]

\* satisfy_metrics: a dict, iterated in insertion order by items().
SatisfyEntries == [fn : ScoreFns, value : {Threshold}]
SeqsUpTo(S, n) == UNION {[1..m -> S] : m \in 0..n}
SatisfySets == SeqsUpTo(SatisfyEntries, MaxSat)

\* Program state: optimize_metric, satisfy_metrics, best_dict (the fields of
\* the Monitor) and i (the number of calls made, the loop index of __main__).
\* Observation of the last call: score_dict (its argument), result (what it
\* returned), prev_best (best_dict when it was entered).
\* History: retained (the argument of the latest call that returned False),
\* mono (whether the optimize values passed so far were increasing),
\* scenario (how far the calls follow the sequence S1..S4).
VARIABLES optimize_metric, satisfy_metrics, best_dict, score_dict, result, i,
          prev_best, retained, mono, scenario

\* The stateless functions of the other two scripts: pc says which function
\* a run applies and whether it has returned, the other variables are the
\* arguments and the value returned.
VARIABLES pc, probabilities, confidences, labels, num_labels, ordinal,
          logits, decoded

monitor_vars == <<optimize_metric, satisfy_metrics, best_dict, score_dict,
                  result, i, prev_best, retained, mono, scenario>>
function_vars == <<pc, probabilities, confidences, labels, num_labels,
                   ordinal, logits, decoded>>
vars == <<monitor_vars, function_vars>>

\* ---------------------------------------------------------- the Monitor
\* Variants of _metric_decreases: without the test of an empty best_dict,
\* and with the comparison reversed.
metric_decreases_NoEmptyTest(best, sd, opt) ==
  LET cur == ApplyMetric(opt, sd)
      old == ApplyMetric(opt, best)
  IN IF ~cur.ok \/ ~old.ok THEN "raised"
     ELSE IF cur.v < old.v THEN "T" ELSE "F"

metric_decreases_Reversed(best, sd, opt) ==
  IF best = EmptyDict THEN "F"
  ELSE LET cur == ApplyMetric(opt, sd)
           old == ApplyMetric(opt, best)
       IN IF ~cur.ok \/ ~old.ok THEN "raised"
          ELSE IF cur.v > old.v THEN "T" ELSE "F"

\* Variant of _metric_decreases with <= in place of <.
metric_decreases_NonStrict(best, sd, opt) ==
  IF best = EmptyDict THEN "F"
  ELSE LET cur == ApplyMetric(opt, sd)
           old == ApplyMetric(opt, best)
       IN IF ~cur.ok \/ ~old.ok THEN "raised"
          ELSE IF cur.v <= old.v THEN "T" ELSE "F"

\* _metric_decreases: "T", "F", or "raised" when optimize_metric raises.
metric_decreases(best, sd, opt) ==
  IF best = EmptyDict THEN "F"
  ELSE LET cur == ApplyMetric(opt, sd)
           old == ApplyMetric(opt, best)
       IN IF ~cur.ok \/ ~old.ok THEN "raised"
          ELSE IF cur.v < old.v THEN "T" ELSE "F"

\* _metrics_satisfied: all(...) over the items in order; it stops at the
\* first entry below its threshold, and an entry that raises ends the call.
RECURSIVE SatisfiedFrom(_, _, _)
SatisfiedFrom(best, sat, n) ==
  IF n > Len(sat) THEN "T"
  ELSE LET r == ApplyMetric(sat[n].fn, best)
       IN IF ~r.ok THEN "raised"
          ELSE IF r.v >= sat[n].value THEN SatisfiedFrom(best, sat, n + 1)
          ELSE "F"

\* Variant of _metrics_satisfied that builds the whole list before all():
\* every satisfy metric is applied, whatever the others give.
metrics_satisfied_Eager(best, sat) ==
  IF \E n \in 1..Len(sat) : ~ApplyMetric(sat[n].fn, best).ok THEN "raised"
  ELSE IF \A n \in 1..Len(sat) : ApplyMetric(sat[n].fn, best).v >= sat[n].value
       THEN "T" ELSE "F"

metrics_satisfied(best, sat) == SatisfiedFrom(best, sat, 1)

\* Variant of the condition that checks the thresholds on score_dict.
Outcome_SatisfyOnCurrent(best, sd, opt, sat) ==
  LET d == metric_decreases(best, sd, opt)
  IN IF d = "raised" THEN Raised
     ELSE IF d = "F" THEN DoNotStop
     ELSE LET s == metrics_satisfied(sd, sat)
          IN IF s = "raised" THEN Raised
             ELSE IF s = "T" THEN Stop ELSE DoNotStop

\* The value evaluate_criteria returns (or that it raises): the condition
\* "self._metric_decreases(score_dict) and self._metrics_satisfied()".
Outcome(best, sd, opt, sat) ==
  LET d == metric_decreases(best, sd, opt)
  IN IF d = "raised" THEN Raised
     ELSE IF d = "F" THEN DoNotStop
     ELSE LET s == metrics_satisfied(best, sat)
          IN IF s = "raised" THEN Raised
             ELSE IF s = "T" THEN Stop ELSE DoNotStop

\* Variants of the assignment of best_dict: on every path, and only when the
\* snapshot does not regress (which keeps the best snapshot seen so far).
NewBest_Always(best, sd, out) == sd

\* Variant that assigns best_dict before the condition is evaluated, so that
\* only the path that returns True restores it.
NewBest_UnlessStop(best, sd, out) == IF out = Stop THEN best ELSE sd

NewBest_GlobalBest(best, sd, out) ==
  IF out = DoNotStop /\ metric_decreases(best, sd, optimize_metric) = "F"
  THEN sd ELSE best

\* best_dict after the call: assigned only on the path that returns False.
NewBest(best, sd, out) == IF out = DoNotStop THEN sd ELSE best

\* ------------------------------------------------- the __main__ scenario
DemoSnapshots == [Keys -> 0..Tenths]
Snap(r, p) == [k \in Keys |-> IF k = "recall" THEN r ELSE p]
S1 == Snap(6, 6)
S2 == Snap(7, 4)
S3 == Snap(5, 9)
S4 == Snap(4, 3)
Scenario == <<S1, S2, S3, S4>>
Off == 0 - 1

\* scenario = n: the calls made so far were exactly Scenario[1..n].
ScenarioNext(sc, sd) ==
  IF sc # Off /\ sc < Len(Scenario) /\ sd = Scenario[sc + 1] THEN sc + 1
  ELSE Off

\* mono: "incr" while every call so far had a larger optimize value than the
\* call before it, "nondecr" while none had a smaller one, "none" otherwise.
MonoNext(m, n, last, sd, opt) ==
  LET cur == ApplyMetric(opt, sd)
      old == ApplyMetric(opt, last)
  IN IF ~cur.ok THEN "none"
     ELSE IF n = 0 THEN "incr"
     ELSE IF m = "none" \/ ~old.ok THEN "none"
     ELSE IF cur.v > old.v THEN m
     ELSE IF cur.v = old.v THEN "nondecr"
     ELSE "none"

\* ------------------------------------------------- prediction_confidence
\* A probability p is the integer p * ProbScale, a confidence c the integer
\* c * ProbScale; the arithmetic is exact.
Probabilities == SeqsUpTo(0..ProbScale, MaxLen)

\* The formula of the docstring: if p < 0.5 -> c = 2p - 1, else c = 1 - 2p.
Confidence_Documented(p) ==
  IF 2 * p < ProbScale THEN 2 * p - ProbScale ELSE ProbScale - 2 * p

\* Variant without the conditional: c = 2p - 1 for every p.
Confidence_NoBranch(p) == 2 * p - ProbScale

\* lambda p: 2 * p - 1 if p >= 0.5 else 1 - 2 * p
Confidence(p) ==
  IF 2 * p >= ProbScale THEN 2 * p - ProbScale ELSE ProbScale - 2 * p

\* list(map(..., probabilities))
ConfidenceList(ps) == [j \in 1..Len(ps) |-> Confidence(ps[j])]

\* ---------------------------------------------------- ordinal_regression
\* [x] * n, which is the empty list when n <= 0.
Repeat(x, n) == IF n <= 0 THEN << >> ELSE [j \in 1..n |-> x]

\* Variant of the row with one zero too many.
OrdinalRow_OneMore(label, n) == Repeat(1, label) \o Repeat(0, n - label)

\* [1] * label + [0] * (num_labels - label - 1)
OrdinalRow(label, n) == Repeat(1, label) \o Repeat(0, n - label - 1)

\* torch.tensor([...]).float(): raises unless all rows have one length.
encode_ordinal_value(ls, n) ==
  LET rows == [j \in 1..Len(ls) |-> OrdinalRow(ls[j], n)]
  IN IF \A j, k \in 1..Len(ls) : Len(rows[j]) = Len(rows[k])
     THEN [ok |-> TRUE, rows |-> rows]
     ELSE [ok |-> FALSE, rows |-> << >>]

\* Labels passed to encode_ordinal, those outside 0..num_labels-1 included.
LabelLists == SeqsUpTo(0..MaxNumLabels, MaxRows)

\* Logits are hundredths, probabilities are ten-thousandths.  Sigmoid is
\* torch.nn.Sigmoid on the logits used here, rounded to four decimals.
ExampleLogits == << <<0 - 5, 0 - 61>>, <<2, 0 - 20>>, <<25, 10>> >>
LogitValues == {0 - 5, 0, 2}
SigmoidTable ==
  << <<0 - 61, 3521>>, <<0 - 20, 4502>>, <<0 - 5, 4875>>, <<0, 5000>>,
     <<2, 5050>>, <<10, 5250>>, <<25, 5622>> >>
Sigmoid(x) ==
  LET n == CHOOSE m \in 1..Len(SigmoidTable) : SigmoidTable[m][1] = x
  IN SigmoidTable[n][2]
Half == 5000

\* Arrays of logits: one to MaxRows rows of one length below MaxNumLabels.
LogitArrays ==
  UNION {[1..r -> [1..c -> LogitValues]] :
           r \in 1..MaxRows, c \in 0..(MaxNumLabels - 1)}

RECURSIVE SumSeq(_)
SumSeq(xs) == IF xs = << >> THEN 0 ELSE Head(xs) + SumSeq(Tail(xs))

\* Variant of the binarization with >= in place of >.
Binarize_AtLeast(prob) == IF prob >= Half THEN 1 ELSE 0

\* (probabilities > 0.5).int()
Binarize(prob) == IF prob > Half THEN 1 ELSE 0

\* decode_ordinal: sigmoid, binarization, sum along axis 1.
decode_ordinal_value(lg) ==
  LET probs == [r \in 1..Len(lg) |->
                  [c \in 1..Len(lg[r]) |-> Sigmoid(lg[r][c])]]
      bits == [r \in 1..Len(lg) |->
                 [c \in 1..Len(lg[r]) |-> Binarize(probs[r][c])]]
  IN [prediction |-> [r \in 1..Len(lg) |-> SumSeq(bits[r])],
      probability |-> probs]

\* The variables of the stateless functions while none of them is used.
FunctionsIdle ==
  /\ pc = "idle"
  /\ probabilities = << >>
  /\ confidences = << >>
  /\ labels = << >>
  /\ num_labels = 1
  /\ ordinal = [ok |-> TRUE, rows |-> << >>]
  /\ logits = << >>
  /\ decoded = [prediction |-> << >>, probability |-> << >>]

\* The variables of the Monitor while no Monitor is used.
MonitorIdle ==
  /\ optimize_metric = RecallFn
  /\ satisfy_metrics = << >>
  /\ best_dict = EmptyDict
  /\ score_dict = EmptyDict
  /\ result = NoCall
  /\ i = 0
  /\ prev_best = EmptyDict
  /\ retained = << >>
  /\ mono = "incr"
  /\ scenario = 0

\* -------------------------------------------------------------- actions
\* __init__
Init ==
  /\ optimize_metric \in ScoreFns
  /\ satisfy_metrics \in SatisfySets
  /\ best_dict = EmptyDict
  /\ score_dict = EmptyDict
  /\ result = NoCall
  /\ i = 0
  /\ prev_best = EmptyDict
  /\ retained = << >>
  /\ mono = "incr"
  /\ scenario = 0
  /\ FunctionsIdle

\* evaluate_criteria(score_dict)
Call(sd) ==
  LET out == Outcome(best_dict, sd, optimize_metric, satisfy_metrics)
  IN /\ result' = out
     /\ best_dict' = NewBest(best_dict, sd, out)
     /\ score_dict' = sd
     /\ i' = i + 1
     /\ prev_best' = best_dict
     /\ retained' = IF out = DoNotStop THEN <<sd>> ELSE retained
     /\ mono' = MonoNext(mono, i, score_dict, sd, optimize_metric)
     /\ scenario' = ScenarioNext(scenario, sd)
     /\ UNCHANGED <<optimize_metric, satisfy_metrics>>
     /\ UNCHANGED function_vars

evaluate_criteria ==
  /\ i < MaxCalls
  /\ \E sd \in Snapshots : Call(sd)

Next == evaluate_criteria

Spec == Init /\ [][Next]_vars

\* __main__: the criterion of the example and its loop, which breaks on True.
InitDemo ==
  /\ optimize_metric = RecallFn
  /\ satisfy_metrics = <<[fn |-> PrecisionFn, value |-> DemoThreshold]>>
  /\ best_dict = EmptyDict
  /\ score_dict = EmptyDict
  /\ result = NoCall
  /\ i = 0
  /\ prev_best = EmptyDict
  /\ retained = << >>
  /\ mono = "incr"
  /\ scenario = 0
  /\ FunctionsIdle

main_loop ==
  /\ i < DemoMaxIter
  /\ i < MAX_ITER
  /\ result # Stop
  /\ \E sd \in DemoSnapshots : Call(sd)

NextDemo == main_loop

SpecDemo == InitDemo /\ [][NextDemo]_vars

\* A call of binary_classification_confidence on a list of probabilities.
InitConfidence ==
  /\ MonitorIdle
  /\ pc = "confidence"
  /\ probabilities \in Probabilities
  /\ confidences = << >>
  /\ labels = << >>
  /\ num_labels = 1
  /\ ordinal = [ok |-> TRUE, rows |-> << >>]
  /\ logits = << >>
  /\ decoded = [prediction |-> << >>, probability |-> << >>]

binary_classification_confidence ==
  /\ pc = "confidence"
  /\ confidences' = ConfidenceList(probabilities)
  /\ pc' = "returned"
  /\ UNCHANGED <<probabilities, labels, num_labels, ordinal, logits, decoded>>
  /\ UNCHANGED monitor_vars

NextConfidence == binary_classification_confidence

\* A call of encode_ordinal on a list of labels, or of decode_ordinal on an
\* array of logits.
InitOrdinal ==
  /\ MonitorIdle
  /\ probabilities = << >>
  /\ confidences = << >>
  /\ ordinal = [ok |-> TRUE, rows |-> << >>]
  /\ decoded = [prediction |-> << >>, probability |-> << >>]
  /\ \/ /\ pc = "encode"
        /\ labels \in LabelLists
        /\ num_labels \in 1..MaxNumLabels
        /\ logits = << >>
     \/ /\ pc = "decode"
        /\ labels = << >>
        /\ num_labels = 1
        /\ logits \in LogitArrays \cup {ExampleLogits}

encode_ordinal ==
  /\ pc = "encode"
  /\ ordinal' = encode_ordinal_value(labels, num_labels)
  /\ pc' = "encoded"
  /\ UNCHANGED <<probabilities, confidences, labels, num_labels, logits,
                 decoded>>
  /\ UNCHANGED monitor_vars

decode_ordinal ==
  /\ pc = "decode"
  /\ decoded' = decode_ordinal_value(logits)
  /\ pc' = "decoded"
  /\ UNCHANGED <<probabilities, confidences, labels, num_labels, ordinal,
                 logits>>
  /\ UNCHANGED monitor_vars

NextOrdinal == encode_ordinal \/ decode_ordinal

SpecOrdinal == InitOrdinal /\ [][NextOrdinal]_vars

SpecConfidence == InitConfidence /\ [][NextConfidence]_vars

\* ------------------------------------------------- vocabulary of claims
OptDefined(d) == ApplyMetric(optimize_metric, d).ok
OptVal(d) == ApplyMetric(optimize_metric, d).v
SatDefined(d) ==
  \A n \in 1..Len(satisfy_metrics) : ApplyMetric(satisfy_metrics[n].fn, d).ok
AllSatisfied(d) ==
  \A n \in 1..Len(satisfy_metrics) :
    ApplyMetric(satisfy_metrics[n].fn, d).v >= satisfy_metrics[n].value
\* A baseline is held once a call was made: the first call always retains.
Held == i > 0
\* The test by which the code takes a baseline to be held (line 48).
HasBaseline == best_dict # EmptyDict
\* Entry n of satisfy_metrics raises on d, or is at or above its threshold.
FailsAt(n, d) == ~ApplyMetric(satisfy_metrics[n].fn, d).ok
MeetsAt(n, d) ==
  /\ ApplyMetric(satisfy_metrics[n].fn, d).ok
  /\ ApplyMetric(satisfy_metrics[n].fn, d).v >= satisfy_metrics[n].value

\* ---------------------------------------------------------------- claims
\* C1: when a baseline is held, a call whose metric applications are all
\* defined returns "stop" if and only if optimize(current) is strictly below
\* optimize(baseline) and every satisfy metric of the baseline is at or above
\* its threshold; otherwise it returns "do not stop".
C1_StopIffRegressionAndSatisfied ==
  [][(Held /\ OptDefined(score_dict') /\ OptDefined(best_dict)
          /\ SatDefined(best_dict))
       => /\ result' \in {Stop, DoNotStop}
          /\ result' = Stop <=>
               (OptVal(score_dict') < OptVal(best_dict)
                  /\ AllSatisfied(best_dict))]_vars

\* C2: the first call on a fresh Monitor returns "do not stop" and stores
\* its snapshot as the baseline, whatever the snapshot and the functions.
C2_FirstCallRetains ==
  i = 1 => (result = DoNotStop /\ best_dict = score_dict)

C2_Witness ==
  /\ i = 1
  /\ result = DoNotStop
  /\ best_dict = score_dict
  /\ ~OptDefined(score_dict)
  /\ score_dict # EmptyDict

\* C3: a call that returns "stop" leaves the baseline as it was before the
\* call, a call that returns "do not stop" leaves the baseline equal to its
\* snapshot, and no call changes the optimize function or the satisfy set.
C3_BaselineFrame ==
  [][/\ result' = Stop => best_dict' = best_dict
     /\ result' = DoNotStop => best_dict' = score_dict'
     /\ optimize_metric' = optimize_metric
     /\ satisfy_metrics' = satisfy_metrics]_vars

C3_Witness ==
  /\ result = Stop
  /\ best_dict = prev_best
  /\ best_dict # score_dict

\* C4: the baseline, when present, is the unmodified snapshot of the most
\* recent call that returned "do not stop".
C4_BaselineIsLastRetained ==
  /\ i = 0 => (best_dict = EmptyDict /\ retained = << >>)
  /\ i > 0 => (retained # << >> /\ best_dict = retained[1])

C4_Witness ==
  /\ i = 3
  /\ result = Stop
  /\ retained = <<best_dict>>
  /\ best_dict # score_dict

\* C5: two current snapshots with the same optimize value receive the same
\* decision in every state, whatever their satisfy metric values.
C5_DecisionIgnoresCurrentSatisfy ==
  LET value == [c \in Snapshots |-> ApplyMetric(optimize_metric, c)]
      SameValue(v) == {c \in Snapshots : value[c].ok /\ value[c].v = v}
      Decisions(v) == {Outcome(best_dict, c, optimize_metric, satisfy_metrics) :
                         c \in SameValue(v)}
  IN \A v \in Values : Cardinality(Decisions(v)) <= 1

\* The call just made returned "stop" on a snapshot that fails a threshold,
\* and a snapshot with the same optimize value meets every threshold.
C5_Witness ==
  /\ result = Stop
  /\ Len(satisfy_metrics) > 0
  /\ SatDefined(score_dict)
  /\ ~AllSatisfied(score_dict)
  /\ \E c \in Snapshots :
       /\ OptDefined(c) /\ OptVal(c) = OptVal(score_dict)
       /\ SatDefined(c) /\ AllSatisfied(c)

\* C6: on a fresh Monitor, evaluate(A) then evaluate(B) with
\* optimize(B) < optimize(A) and A meeting every threshold returns
\* "do not stop" then "stop".
C6_RegressionAfterSatisfiedStops ==
  [][(/\ i = 1
      /\ OptDefined(score_dict) /\ OptDefined(score_dict')
      /\ OptVal(score_dict') < OptVal(score_dict)
      /\ SatDefined(score_dict) /\ AllSatisfied(score_dict))
       => (result = DoNotStop /\ result' = Stop)]_vars

\* C7: after a call returned "stop" with baseline A, the next call has the
\* decision and the resulting baseline it would have had without the
\* stopping call, and a snapshot that regresses relative to A gets "stop"
\* again with the baseline unchanged.
C7_StopFreezesBaseline ==
  [][result = Stop =>
       /\ result' = Outcome(prev_best, score_dict', optimize_metric,
                            satisfy_metrics)
       /\ best_dict' = NewBest(prev_best, score_dict', result')
       /\ (OptDefined(score_dict') /\ OptVal(score_dict') < OptVal(prev_best))
            => (result' = Stop /\ best_dict' = best_dict)]_vars

\* Two consecutive stops against the same baseline, by different snapshots.
C7_Witness ==
  /\ i = 3
  /\ result = Stop
  /\ prev_best = best_dict
  /\ retained = <<best_dict>>
  /\ OptVal(score_dict) < OptVal(best_dict)

\* C8: while the optimize values passed to a fresh Monitor are strictly
\* increasing, no call returns "stop".
C8_IncreasingNeverStops ==
  (i > 0 /\ mono = "incr") => result # Stop

C8_Witness ==
  /\ i = 3
  /\ mono = "incr"
  /\ result = DoNotStop
  /\ Len(satisfy_metrics) > 0
  /\ SatDefined(prev_best) /\ AllSatisfied(prev_best)

\* C9: with an empty satisfy set "all satisfied" is true in every state, and
\* with a baseline held a call returns "stop" exactly when
\* optimize(current) is strictly below optimize(baseline).
C9_EmptySatisfySet ==
  [][(satisfy_metrics = << >>)
       => /\ metrics_satisfied(best_dict, satisfy_metrics) = "T"
          /\ (Held /\ OptDefined(score_dict') /\ OptDefined(best_dict))
               => (result' = Stop <=>
                     OptVal(score_dict') < OptVal(best_dict))]_vars

\* C10: in the example of __main__ the decision of a call compares its
\* snapshot with the snapshot retained by the call before it: a regressing
\* snapshot whose baseline fails the threshold becomes the baseline, and
\* S1, S2, S3, S4 give do-not-stop, do-not-stop, do-not-stop, stop with
\* baselines S1, S2, S3, S3.
C10_OneStepLookBack ==
  /\ i > 1 =>
       /\ result = Stop <=>
            (OptVal(score_dict) < OptVal(prev_best) /\ AllSatisfied(prev_best))
       /\ (OptVal(score_dict) < OptVal(prev_best) /\ ~AllSatisfied(prev_best))
            => (result = DoNotStop /\ best_dict = score_dict)
  /\ scenario = 1 => (result = DoNotStop /\ best_dict = S1)
  /\ scenario = 2 => (result = DoNotStop /\ best_dict = S2)
  /\ scenario = 3 => (result = DoNotStop /\ best_dict = S3)
  /\ scenario = 4 => (result = Stop /\ best_dict = S3)

C10_Witness ==
  /\ scenario = 4
  /\ i = 4
  /\ score_dict = S4
  /\ prev_best = S3

\* C11: the Monitor is in NoBaseline before the first call and in
\* HasBaseline after it, for any snapshot, and never returns to NoBaseline.
C11_HasBaselineAfterFirstCall ==
  /\ i = 0 => ~HasBaseline
  /\ i > 0 => HasBaseline

\* C12: after a call returned "stop" against baseline A, a call whose
\* snapshot C has optimize(C) >= optimize(A) returns "do not stop" and makes
\* C the baseline, and the next decision is "stop" exactly when the next
\* snapshot regresses relative to C and C meets every threshold.
C12_StopIsNotTerminal ==
  [][(result = Stop /\ OptDefined(score_dict')
        /\ OptVal(score_dict') >= OptVal(best_dict))
       => /\ result' = DoNotStop
          /\ best_dict' = score_dict'
          /\ SatDefined(score_dict') =>
               \A d \in Snapshots :
                 OptDefined(d) =>
                   (Outcome(best_dict', d, optimize_metric, satisfy_metrics)
                      = Stop
                    <=> (OptVal(d) < OptVal(score_dict')
                           /\ AllSatisfied(score_dict')))]_vars

\* C13: a call that fails because a metric function fails leaves the
\* baseline exactly as it was before the call.
C13_FailureKeepsBaseline ==
  [][result' = Raised => best_dict' = best_dict]_vars

\* The call failed in a satisfy function, after both applications of the
\* optimize function succeeded.
C13_Witness ==
  /\ result = Raised
  /\ OptDefined(score_dict) /\ OptDefined(prev_best)
  /\ best_dict = prev_best
  /\ best_dict # score_dict

\* C17 as claimed, on the calls entered with a non-empty baseline: if the
\* optimize function fails on the current or the baseline snapshot, or any
\* satisfy function fails on the baseline, the call fails.
C17_AnyFailureFailsTheCall ==
  [][(Held /\ HasBaseline
        /\ (~OptDefined(score_dict') \/ ~OptDefined(best_dict)
              \/ ~SatDefined(best_dict)))
       => result' = Raised]_vars

\* C17 amended: with best_dict empty no function is applied.  Otherwise the
\* optimize function is applied to the current and the baseline snapshot and
\* a failure of either fails the call; the satisfy functions are applied to
\* the baseline only if the current snapshot regresses, in the order of the
\* satisfy set and up to the first one below its threshold, and the call
\* fails exactly when one of those applied fails.
C17_FailureOfAppliedFunctions ==
  [][/\ ~HasBaseline => result' = DoNotStop
     /\ (HasBaseline /\ (~OptDefined(score_dict') \/ ~OptDefined(best_dict)))
          => result' = Raised
     /\ (HasBaseline /\ OptDefined(score_dict') /\ OptDefined(best_dict))
          => (result' = Raised <=>
                /\ OptVal(score_dict') < OptVal(best_dict)
                /\ \E n \in 1..Len(satisfy_metrics) :
                     /\ FailsAt(n, best_dict)
                     /\ \A m \in 1..(n - 1) : MeetsAt(m, best_dict))]_vars

\* A regressing call returned "do not stop" although a satisfy function
\* fails on its baseline: an earlier entry was below its threshold.
C17_Witness ==
  /\ result = DoNotStop
  /\ prev_best # EmptyDict
  /\ OptDefined(score_dict) /\ OptDefined(prev_best)
  /\ OptVal(score_dict) < OptVal(prev_best)
  /\ \E n \in 1..Len(satisfy_metrics) : FailsAt(n, prev_best)

C19_BadFirstSnapshotSticks ==
  [][/\ (i = 0 /\ score_dict' # EmptyDict /\ ~OptDefined(score_dict'))
          => (result' = DoNotStop /\ best_dict' = score_dict')
     /\ (HasBaseline /\ ~OptDefined(best_dict))
          => (result' = Raised /\ best_dict' = best_dict)]_vars

\* Two calls after the bad first snapshot, the last with a well-formed one.
C19_Witness ==
  /\ i = 3
  /\ result = Raised
  /\ HasBaseline /\ ~OptDefined(best_dict)
  /\ OptDefined(score_dict) /\ SatDefined(score_dict)

Abs(x) == IF x < 0 THEN 0 - x ELSE x
FromHalf(p) == Abs(2 * p - ProbScale)

C16_OrdinalEncoding ==
  (pc = "encoded" /\ \A j \in 1..Len(labels) : labels[j] \in 0..(num_labels - 1))
    => /\ ordinal.ok
       /\ Len(ordinal.rows) = Len(labels)
       /\ \A j \in 1..Len(labels) :
            LET row == ordinal.rows[j]
            IN /\ Len(row) = num_labels - 1
               /\ \A c \in 1..Len(row) :
                    /\ row[c] \in {0, 1}
                    /\ row[c] = 1 <=> labels[j] > c - 1
               /\ \A c \in 1..(Len(row) - 1) : row[c] >= row[c + 1]
               /\ num_labels = 3 =>
                    /\ labels[j] = 0 => row = <<0, 0>>
                    /\ labels[j] = 1 => row = <<1, 0>>
                    /\ labels[j] = 2 => row = <<1, 1>>

\* The call of the example: labels [2, 0, 1] with 3 classes.
C16_Witness ==
  /\ pc = "encoded"
  /\ num_labels = 3
  /\ labels = <<2, 0, 1>>
  /\ ordinal = [ok |-> TRUE, rows |-> << <<1, 1>>, <<0, 0>>, <<1, 0>> >>]

====
